---------------------------- MODULE Spec2Model ----------------------------
(***************************************************************************)
(* Model of the whodis domain-availability service: the batch operation    *)
(* check(domains) of services/domain-availability.service.ts, with the     *)
(* JavaScript text operations it relies on (toLowerCase, includes,         *)
(* JSON.stringify, String) modelled on sequences of characters.            *)
(***************************************************************************)
EXTENDS Naturals, Sequences, FiniteSets

(***************************************************************************)
(* Bounds of the model.                                                    *)
(***************************************************************************)
\* longest batch handed to check
\* the longest domain list a caller passes to an adapter
MaxArgs == 2

\* the most arguments after the script name in process.argv
MaxCliArgs == 2

\* the most calls of config.load in one process
MaxLoads == 2

\* the most positions two calls that overlap have together
MaxPairTotal == 3

\* the longest batch
MaxBatch == 2

(***************************************************************************)
(* JavaScript values.  A text is a sequence of one-character strings.      *)
(***************************************************************************)
JUndefined == [t |-> "undefined"]

JNull == [t |-> "null"]

JStr(s) == [t |-> "string", s |-> s]

JNum(n) == [t |-> "number", n |-> n]

JArr(a) == [t |-> "array", a |-> a]

\* an object with its own enumerable properties in insertion order
JObj(p) == [t |-> "object", p |-> p]

Prop(k, v) == [k |-> k, v |-> v]

\* an Error instance: name and message live on the prototype / as
\* non-enumerable properties
JErr(name, message) == [t |-> "error", name |-> name, message |-> message]

\* ToBoolean
Truthy(v) ==
    CASE v.t = "undefined" -> FALSE
      [] v.t = "null" -> FALSE
      [] v.t = "string" -> Len(v.s) > 0
      [] v.t = "number" -> v.n # 0
      [] OTHER -> TRUE

\* typeof v === 'object'
TypeofObject(v) == v.t \in {"null", "array", "object", "error"}

\* Object.values(v)
ObjectValues(v) ==
    CASE v.t = "object" -> [i \in 1..Len(v.p) |-> v.p[i].v]
      [] v.t = "array" -> v.a
      [] OTHER -> <<>>

\* v[key] for a truthy v
Get(v, key) ==
    CASE v.t = "object" /\ (\E i \in 1..Len(v.p) : v.p[i].k = key) ->
            v.p[CHOOSE i \in 1..Len(v.p) : v.p[i].k = key].v
      [] v.t = "error" /\ key = <<"m","e","s","s","a","g","e">> -> JStr(v.message)
      [] OTHER -> JUndefined

UpperCaseLetters ==
    <<"A","B","C","D","E","F","G","H","I","J","K","L","M",
      "N","O","P","Q","R","S","T","U","V","W","X","Y","Z">>

LowerCaseLetters ==
    <<"a","b","c","d","e","f","g","h","i","j","k","l","m",
      "n","o","p","q","r","s","t","u","v","w","x","y","z">>

LowerChar(c) ==
    IF \E i \in 1..26 : UpperCaseLetters[i] = c
    THEN LowerCaseLetters[CHOOSE i \in 1..26 : UpperCaseLetters[i] = c]
    ELSE c

\* String.prototype.toLowerCase
ToLowerCase(s) == [i \in 1..Len(s) |-> LowerChar(s[i])]

\* String.prototype.includes
Includes(s, pat) ==
    \E i \in 0..Len(s) :
        /\ i + Len(pat) <= Len(s)
        /\ SubSeq(s, i + 1, i + Len(pat)) = pat

RECURSIVE Concat(_)
\* the texts of a sequence of texts, joined
Concat(ss) == IF ss = <<>> THEN <<>> ELSE Head(ss) \o Concat(Tail(ss))

RECURSIVE Join(_, _)
\* Array.prototype.join
Join(ss, sep) ==
    IF ss = <<>> THEN <<>>
    ELSE IF Len(ss) = 1 THEN ss[1]
    ELSE ss[1] \o sep \o Join(Tail(ss), sep)

\* JSON's escape of one character inside a string literal
EscapeChar(c) ==
    CASE c = "\"" -> <<"\\", "\"">>
      [] c = "\\" -> <<"\\", "\\">>
      [] c = "\n" -> <<"\\", "n">>
      [] OTHER -> <<c>>

\* JSON's string literal of a text
Quote(s) == <<"\"">> \o Concat([i \in 1..Len(s) |-> EscapeChar(s[i])]) \o <<"\"">>

DigitChars == <<"0","1","2","3","4","5","6","7","8","9">>

RECURSIVE NatToText(_)
\* the decimal text of a natural number
NatToText(n) ==
    IF n < 10 THEN <<DigitChars[n + 1]>>
    ELSE NatToText(n \div 10) \o <<DigitChars[(n % 10) + 1]>>

\* Object.keys(v) of a value for which typeof v === 'object' and v is truthy
ObjectKeys(v) ==
    CASE v.t = "object" -> [i \in 1..Len(v.p) |-> v.p[i].k]
      [] v.t = "array" -> [i \in 1..Len(v.a) |-> NatToText(i - 1)]
      [] OTHER -> <<>>

RECURSIVE JSONStringify(_)
\* JSON.stringify(v) without indentation
JSONStringify(v) ==
    CASE v.t = "null" -> <<"n","u","l","l">>
      [] v.t = "string" -> Quote(v.s)
      [] v.t = "number" -> NatToText(v.n)
      [] v.t = "array" ->
            <<"[">> \o Join([i \in 1..Len(v.a) |->
                              IF v.a[i].t = "undefined" THEN <<"n","u","l","l">>
                              ELSE JSONStringify(v.a[i])], <<",">>) \o <<"]">>
      [] v.t = "object" ->
            LET kept == SelectSeq(v.p, LAMBDA q : q.v.t # "undefined")
            IN  <<"{">> \o Join([i \in 1..Len(kept) |->
                                  Quote(kept[i].k) \o <<":">> \o JSONStringify(kept[i].v)],
                                <<",">>) \o <<"}">>
      [] OTHER -> <<"{","}">>

\* String(v): Error.prototype.toString for an Error, the text itself for a string
StringOf(v) ==
    CASE v.t = "string" -> v.s
      [] v.t = "error" ->
            IF v.name = <<>> THEN v.message
            ELSE IF v.message = <<>> THEN v.name
            ELSE v.name \o <<":", " ">> \o v.message
      [] v.t = "null" -> <<"n","u","l","l">>
      [] v.t = "undefined" -> <<"u","n","d","e","f","i","n","e","d">>
      [] v.t = "number" -> NatToText(v.n)
      [] OTHER -> <<"[","o","b","j","e","c","t"," ","O","b","j","e","c","t","]">>

(***************************************************************************)
(* Texts of the classification policy.                                     *)
(***************************************************************************)
\* 'no match'
PAT_no_match ==
    <<"n","o"," ","m","a","t","c","h">>

\* 'not found'
PAT_not_found ==
    <<"n","o","t"," ","f","o","u","n","d">>

\* 'domain name not known'
PAT_domain_name_not_known ==
    <<"d","o","m","a","i","n"," ","n","a","m","e"," ","n","o","t"," ","k","n","o","w","n">>

\* 'no entries found'
PAT_no_entries_found ==
    <<"n","o"," ","e","n","t","r","i","e","s"," ","f","o","u","n","d">>

\* 'is available'
PAT_is_available ==
    <<"i","s"," ","a","v","a","i","l","a","b","l","e">>

\* 'is free'
PAT_is_free ==
    <<"i","s"," ","f","r","e","e">>

\* 'Registrar'
K_Registrar ==
    <<"R","e","g","i","s","t","r","a","r">>

\* 'Creation Date'
K_Creation_Date ==
    <<"C","r","e","a","t","i","o","n"," ","D","a","t","e">>

\* 'Expiry Date'
K_Expiry_Date ==
    <<"E","x","p","i","r","y"," ","D","a","t","e">>

\* 'message'
K_message ==
    <<"m","e","s","s","a","g","e">>

(***************************************************************************)
(* The body of the async function mapped over the batch.                   *)
(***************************************************************************)
\* Object.values(domainInfo).some(serverData => serverData && (...))
hasRegistrarData(domainInfo) ==
    LET sources == ObjectValues(domainInfo)
    IN  \E i \in 1..Len(sources) :
            LET serverData == sources[i]
            IN  /\ Truthy(serverData)
                /\ \/ Truthy(Get(serverData, K_Registrar))
                   \/ Truthy(Get(serverData, K_Creation_Date))
                   \/ Truthy(Get(serverData, K_Expiry_Date))

\* variant: rawText tested for the four substrings of the catch block only
rawTextSaysNotFound(rawText) ==
    \/ Includes(rawText, PAT_no_match)
    \/ Includes(rawText, PAT_not_found)
    \/ Includes(rawText, PAT_domain_name_not_known)
    \/ Includes(rawText, PAT_no_entries_found)

\* the six includes() tests on rawText
rawTextSaysNoMatch(rawText) ==
    \/ Includes(rawText, PAT_no_match)
    \/ Includes(rawText, PAT_not_found)
    \/ Includes(rawText, PAT_domain_name_not_known)
    \/ Includes(rawText, PAT_no_entries_found)
    \/ Includes(rawText, PAT_is_available)
    \/ Includes(rawText, PAT_is_free)

\* variant: errorMessage tested for the six substrings of the try block
errorMessageSaysNoMatch(errorMessage) ==
    \/ Includes(errorMessage, PAT_no_match)
    \/ Includes(errorMessage, PAT_not_found)
    \/ Includes(errorMessage, PAT_domain_name_not_known)
    \/ Includes(errorMessage, PAT_no_entries_found)
    \/ Includes(errorMessage, PAT_is_available)
    \/ Includes(errorMessage, PAT_is_free)

\* the four includes() tests on errorMessage
errorMessageSaysNotFound(errorMessage) ==
    \/ Includes(errorMessage, PAT_no_match)
    \/ Includes(errorMessage, PAT_not_found)
    \/ Includes(errorMessage, PAT_domain_name_not_known)
    \/ Includes(errorMessage, PAT_no_entries_found)

\* variant: the guard without its test of Object.keys(domainInfo).length
isObject(domainInfo) ==
    /\ Truthy(domainInfo)
    /\ TypeofObject(domainInfo)

\* the guard of the outer if: a truthy object with at least one key
isNonEmptyObject(domainInfo) ==
    /\ Truthy(domainInfo)
    /\ TypeofObject(domainInfo)
    /\ Len(ObjectKeys(domainInfo)) > 0

RECURSIVE JSONStringifyValues(_)
\* variant of the serialization: the values of a record without its keys
JSONStringifyValues(v) ==
    CASE v.t = "string" -> Quote(v.s)
      [] v.t = "number" -> NatToText(v.n)
      [] v.t = "array" ->
            <<"[">> \o Join([i \in 1..Len(v.a) |-> JSONStringifyValues(v.a[i])],
                            <<",">>) \o <<"]">>
      [] v.t = "object" ->
            <<"{">> \o Join([i \in 1..Len(v.p) |-> JSONStringifyValues(v.p[i].v)],
                            <<",">>) \o <<"}">>
      [] OTHER -> <<"n","u","l","l">>

\* variant: the substrings are searched in the field values only
statusOfInfoValuesOnly(domainInfo) ==
    IF isNonEmptyObject(domainInfo)
    THEN IF hasRegistrarData(domainInfo)
         THEN "unavailable"
         ELSE IF rawTextSaysNoMatch(ToLowerCase(JSONStringifyValues(domainInfo)))
              THEN "available"
              ELSE "unavailable"
    ELSE "available"

\* variant: a result that is not a non-empty object counts as a failed lookup
statusOfInfoElseFailed(domainInfo) ==
    IF isNonEmptyObject(domainInfo)
    THEN IF hasRegistrarData(domainInfo)
         THEN "unavailable"
         ELSE IF rawTextSaysNoMatch(ToLowerCase(JSONStringify(domainInfo)))
              THEN "available"
              ELSE "unavailable"
    ELSE "failed"

\* variant: the text of the response is examined before the registrar fields
statusOfInfoTextFirst(domainInfo) ==
    IF isNonEmptyObject(domainInfo)
    THEN IF rawTextSaysNoMatch(ToLowerCase(JSONStringify(domainInfo)))
         THEN "available"
         ELSE "unavailable"
    ELSE "available"

\* the status returned by the try block for the value whoiser.domain resolved to
statusOfInfo(domainInfo) ==
    IF isNonEmptyObject(domainInfo)
    THEN IF hasRegistrarData(domainInfo)
         THEN "unavailable"
         ELSE IF rawTextSaysNoMatch(ToLowerCase(JSONStringify(domainInfo)))
              THEN "available"
              ELSE "unavailable"
    ELSE "available"

\* error.message || String(error), as a JavaScript value; reading .message of
\* null or undefined raises a TypeError
messageOrString(error) ==
    IF error.t \in {"null", "undefined"}
    THEN [t |-> "throws"]
    ELSE IF Truthy(Get(error, K_message))
         THEN Get(error, K_message)
         ELSE JStr(StringOf(error))

\* TRUE when evaluating (error.message || String(error)).toLowerCase() raises
handlerRaises(error) == messageOrString(error).t # "string"

\* the status returned by the catch block when it does not raise
statusOfError(error) ==
    IF errorMessageSaysNotFound(ToLowerCase(messageOrString(error).s))
    THEN "available"
    ELSE "failed"

(***************************************************************************)
(* Texts of the answers the model draws from.                              *)
(***************************************************************************)

\* 'Domain Name'
K_Domain_Name ==
    <<"D","o","m","a","i","n"," ","N","a","m","e">>

\* 'No entries found'
K_No_entries_found ==
    <<"N","o"," ","e","n","t","r","i","e","s"," ","f","o","u","n","d">>

\* 'Domain Status'
K_Domain_Status ==
    <<"D","o","m","a","i","n"," ","S","t","a","t","u","s">>

\* 'text'
K_text ==
    <<"t","e","x","t">>

\* 'whois.verisign-grs.com'
L_verisign ==
    <<"w","h","o","i","s",".","v","e","r","i","s","i","g","n","-","g","r","s",".","c","o","m">>

\* 'whois.nic.dev'
L_nic ==
    <<"w","h","o","i","s",".","n","i","c",".","d","e","v">>

\* 'Not Found'
L_Not_Found ==
    <<"N","o","t"," ","F","o","u","n","d">>

\* 'MarkMonitor Inc.'
T_MarkMonitor ==
    <<"M","a","r","k","M","o","n","i","t","o","r"," ","I","n","c",".">>

\* '2001-05-01'
T_2001 ==
    <<"2","0","0","1","-","0","5","-","0","1">>

\* '2030-01-01'
T_2030 ==
    <<"2","0","3","0","-","0","1","-","0","1">>

\* 'A.COM'
T_A_COM ==
    <<"A",".","C","O","M">>

\* 'No match for "A.COM"'
T_No_match_for ==
    <<"N","o"," ","m","a","t","c","h"," ","f","o","r"," ","\"","A",".","C","O","M","\"">>

\* 'Domain NOT FOUND'
T_NOT_FOUND ==
    <<"D","o","m","a","i","n"," ","N","O","T"," ","F","O","U","N","D">>

\* 'Domain is free'
T_is_free ==
    <<"D","o","m","a","i","n"," ","i","s"," ","f","r","e","e">>

\* 'connect ETIMEDOUT'
T_ETIMEDOUT ==
    <<"c","o","n","n","e","c","t"," ","E","T","I","M","E","D","O","U","T">>

\* 'Domain is available'
T_is_available ==
    <<"D","o","m","a","i","n"," ","i","s"," ","a","v","a","i","l","a","b","l","e">>

\* 'whoiser.domain is not a function'
T_not_a_function ==
    <<"w","h","o","i","s","e","r",".","d","o","m","a","i","n"," ","i","s"," ","n","o","t"," ","a"," ","f","u","n","c","t","i","o","n">>

\* 'Error'
T_Error ==
    <<"E","r","r","o","r">>

\* 'TypeError'
T_TypeError ==
    <<"T","y","p","e","E","r","r","o","r">>

\* 'ok'
T_ok ==
    <<"o","k">>

(***************************************************************************)
(* What the WHOIS capability can answer.  whoiser.domain either resolves   *)
(* to a value (info) or raises a value (error).                            *)
(***************************************************************************)
Resolved(info) == [ok |-> TRUE, v |-> info]

Raised(error) == [ok |-> FALSE, v |-> error]

\* the answers one query can get while the library works
AnswerIds ==
    {"empty", "registered", "registeredNoMatch", "noMatchText", "isFree",
     "ambiguous", "emptyRegistrar", "secondSource", "labelled", "fieldNamed", "null", "undefined", "text",
     "errNoMatch", "errTimeout", "errIsAvailable", "errString", "errNull",
     "errEmptyMessage", "errNumberMessage"}

\* the answer of every query when the library cannot be invoked
FaultId == "errNotAFunction"

OutcomeIds == AnswerIds \cup {FaultId}

Whois ==
    [id \in OutcomeIds |->
      CASE id = "empty" -> Resolved(JObj(<<>>))
        [] id = "registered" ->
              Resolved(JObj(<<Prop(L_verisign,
                  JObj(<<Prop(K_Registrar, JStr(T_MarkMonitor))>>))>>))
        [] id = "registeredNoMatch" ->
              Resolved(JObj(<<Prop(L_nic,
                  JObj(<<Prop(K_Creation_Date, JStr(T_2001)),
                         Prop(K_text, JArr(<<JStr(T_No_match_for)>>))>>))>>))
        [] id = "noMatchText" ->
              Resolved(JObj(<<Prop(L_verisign,
                  JObj(<<Prop(K_Domain_Status, JArr(<<>>)),
                         Prop(K_text, JArr(<<JStr(T_No_match_for)>>))>>))>>))
        [] id = "isFree" ->
              Resolved(JObj(<<Prop(L_nic,
                  JObj(<<Prop(K_text, JArr(<<JStr(T_is_free)>>))>>))>>))
        [] id = "ambiguous" ->
              Resolved(JObj(<<Prop(L_nic,
                  JObj(<<Prop(K_Domain_Name, JStr(T_A_COM))>>))>>))
        [] id = "emptyRegistrar" ->
              Resolved(JObj(<<Prop(L_nic,
                  JObj(<<Prop(K_Registrar, JStr(<<>>)),
                         Prop(K_text, JArr(<<JStr(T_NOT_FOUND)>>))>>))>>))
        [] id = "secondSource" ->
              Resolved(JObj(<<Prop(L_nic, JNull),
                              Prop(L_verisign,
                  JObj(<<Prop(K_Expiry_Date, JStr(T_2030))>>))>>))
        [] id = "labelled" ->
              Resolved(JObj(<<Prop(L_Not_Found,
                  JObj(<<Prop(K_Domain_Name, JStr(T_A_COM))>>))>>))
        [] id = "fieldNamed" ->
              Resolved(JObj(<<Prop(L_nic,
                  JObj(<<Prop(K_No_entries_found, JStr(T_A_COM))>>))>>))
        [] id = "null" -> Resolved(JNull)
        [] id = "undefined" -> Resolved(JUndefined)
        [] id = "text" -> Resolved(JStr(T_ok))
        [] id = "errNoMatch" -> Raised(JErr(T_Error, T_No_match_for))
        [] id = "errTimeout" -> Raised(JErr(T_Error, T_ETIMEDOUT))
        [] id = "errIsAvailable" -> Raised(JErr(T_Error, T_is_available))
        [] id = "errString" -> Raised(JStr(T_NOT_FOUND))
        [] id = "errNull" -> Raised(JNull)
        [] id = "errEmptyMessage" -> Raised(JErr(T_Error, <<>>))
        [] id = "errNumberMessage" ->
              Raised(JObj(<<Prop(K_message, JNum(42))>>))
        [] id = "errNotAFunction" -> Raised(JErr(T_TypeError, T_not_a_function))]

\* the domain names a batch is made of
Names == {"a.com", "b.dev"}

Batches == UNION {[1..n -> Names] : n \in 0..MaxBatch}

(***************************************************************************)
(* One run of check(domains).                                              *)
(***************************************************************************)
VARIABLES
    domains,    \* the argument of check
    libFault,   \* TRUE when whoiser.domain cannot be invoked at all
    pc,         \* where check is: "map", "await", "forEach", "done", "raised"
    index,      \* the position map / forEach is at
    outcome,    \* per position, the id of the answer its query got, or "none"
    checks,     \* per position, the state of the promise of its async function
    settled,    \* the positions in the order their promises settled
    results     \* the accumulator: [available, unavailable]

\* the WHOIS servers and a second run of check on the same batch
VARIABLES
    world,      \* the answers a query can get in this behaviour
    run,        \* 1 in the first run of check, 2 in the repeated run
    first       \* in run 2, what run 1 saw and returned; NoFirst in run 1

\* a caller of the controller: the MCP tool or the CLI command
VARIABLES
    entry,      \* "none", "tool" or "cli"
    args,       \* the domain list the caller passes, a list of texts
    apc,        \* "idle", "received", "handler", "controlled", "finished"
    called,     \* the lists the service's check was called with, in call order
    ctl,        \* what controller.check did: returned content or raised
    reply       \* what the caller gets back

\* two calls of check that overlap in time
VARIABLES
    calls       \* per call: its batch, where it is, its promises, its report

\* the configuration of the process
VARIABLES
    directEnv,      \* the environment the process was started with
    penv,           \* process.env
    dotenvFile,     \* the .env file of the working directory
    globalFile,     \* $HOME/.mcp/configs.json
    configLoaded,   \* the flag of the ConfigLoader
    reads,          \* the configuration sources read so far, in order
    loads,          \* the number of calls of config.load so far
    got             \* the last call of config.getBoolean and what it returned

\* one start of the process
VARIABLES
    argv,       \* process.argv
    mpc,        \* where main is
    events      \* what the process has done so far, in order

checkVars == <<domains, libFault, pc, index, outcome, checks, settled, results>>

pairVars == <<calls>>

configVars == <<directEnv, penv, dotenvFile, globalFile, configLoaded, reads, loads, got>>

mainVars == <<argv, mpc, events>>

processVars == <<pairVars, configVars, mainVars>>

rerunVars == <<world, run, first>>

adapterVars == <<entry, args, apc, called, ctl, reply>>

vars == <<checkVars, rerunVars, adapterVars, processVars>>

NoFirst == [outcome |-> <<>>, settled |-> <<>>,
            results |-> [available |-> <<>>, unavailable |-> <<>>]]

NotCalled == <<>>

Nothing == [kind |-> "nothing"]

\* no caller: check is entered directly
NoAdapter ==
    /\ entry = "none"
    /\ args = <<>>
    /\ apc = "idle"
    /\ called = NotCalled
    /\ ctl = Nothing
    /\ reply = Nothing

\* no overlapping calls
NoPair == calls = <<>>

\* the configuration is not looked at
NoConfig ==
    /\ directEnv = <<>>
    /\ penv = <<>>
    /\ dotenvFile = <<>>
    /\ globalFile = <<>>
    /\ configLoaded = FALSE
    /\ reads = <<>>
    /\ loads = 0
    /\ got = Nothing

\* main is not looked at
NoMain ==
    /\ argv = <<>>
    /\ mpc = "idle"
    /\ events = <<>>

Positions == 1..Len(domains)

Pending == [status |-> "pending", value |-> [domain |-> "", status |-> "none"]]

Uncalled == [status |-> "uncalled", value |-> [domain |-> "", status |-> "none"]]

\* variant: the async function without its try/catch
lookupUncaught(domain, answer) ==
    IF answer.ok
    THEN [status |-> "fulfilled",
          value |-> [domain |-> domain, status |-> statusOfInfo(answer.v)]]
    ELSE [status |-> "rejected",
          value |-> [domain |-> domain, status |-> "Error"]]

\* the settlement of the promise of the async function of one domain, given
\* what whoiser.domain answered
lookup(domain, answer) ==
    IF answer.ok
    THEN [status |-> "fulfilled",
          value |-> [domain |-> domain, status |-> statusOfInfo(answer.v)]]
    ELSE IF handlerRaises(answer.v)
         THEN [status |-> "rejected",
               value |-> [domain |-> domain, status |-> "TypeError"]]
         ELSE [status |-> "fulfilled",
               value |-> [domain |-> domain, status |-> statusOfError(answer.v)]]

\* lookup over the answers of the model, evaluated once: lookup uses its
\* domain only as the domain field of the value it returns
lookupOfAnswer == [id \in OutcomeIds |-> lookup("", Whois[id])]

\* variant: a lookup that queries again after a timeout
lookupOfRetrying(domain, id) ==
    IF id = "errTimeout"
    THEN Pending
    ELSE [lookupOfAnswer[id] EXCEPT !.value.domain = domain]

\* lookup(domain, Whois[id])
lookupOf(domain, id) == [lookupOfAnswer[id] EXCEPT !.value.domain = domain]

\* variant: a join that is ready as soon as one input promise has settled
anySettledReady(cs) ==
    \E i \in DOMAIN cs : cs[i].status \in {"fulfilled", "rejected"}

\* Promise.allSettled's promise settles once every input promise has settled
allSettledReady(cs) ==
    \A i \in DOMAIN cs : cs[i].status \in {"fulfilled", "rejected"}

\* variant: Promise.all, which rejects when an input promise rejects
promiseAll(cs) ==
    IF \E i \in DOMAIN cs : cs[i].status = "rejected"
    THEN [status |-> "rejected", value |-> cs]
    ELSE [status |-> "fulfilled", value |-> cs]

\* variant: a combinator that hands over the settlements in the order in
\* which they arrived
allSettledInSettleOrder(cs) ==
    [status |-> "fulfilled",
     value  |-> [n \in DOMAIN cs |->
                    IF n <= Len(settled) THEN cs[settled[n]] ELSE cs[n]]]

\* ... and it always fulfils, with the settlements in input order
allSettled(cs) == [status |-> "fulfilled", value |-> cs]

\* variant: Array.prototype.unshift in place of push
unshift(list, x) == <<x>> \o list

\* Array.prototype.push
push(list, x) == Append(list, x)

\* variant: a callback that files every lookup that was not found available
\* under unavailable
forEachCallbackFailedUnavailable(acc, result, domain) ==
    IF result.status = "fulfilled" /\ result.value.status # "none"
    THEN IF result.value.status = "available"
         THEN [acc EXCEPT !.available = push(@, domain)]
         ELSE [acc EXCEPT !.unavailable = push(@, domain)]
    ELSE acc

\* variant: a callback whose second test is not under an else, and files
\* under unavailable every fulfilled lookup that did not fail
forEachCallbackNoElse(acc, result, domain) ==
    IF result.status = "fulfilled" /\ result.value.status # "none"
    THEN LET one == IF result.value.status = "available"
                    THEN [acc EXCEPT !.available = push(@, domain)]
                    ELSE acc
         IN  IF result.value.status # "failed"
             THEN [one EXCEPT !.unavailable = push(@, domain)]
             ELSE one
    ELSE acc

\* variant: a callback that files a rejected lookup under unavailable
forEachCallbackRejectedUnavailable(acc, result, domain) ==
    IF result.status = "fulfilled" /\ result.value.status # "none"
    THEN IF result.value.status = "available"
         THEN [acc EXCEPT !.available = push(@, domain)]
         ELSE IF result.value.status = "unavailable"
              THEN [acc EXCEPT !.unavailable = push(@, domain)]
              ELSE acc
    ELSE IF result.status = "rejected"
         THEN [acc EXCEPT !.unavailable = push(@, domain)]
         ELSE acc

\* one call of the forEach callback
forEachCallback(acc, result, domain) ==
    IF result.status = "fulfilled" /\ result.value.status # "none"
    THEN IF result.value.status = "available"
         THEN [acc EXCEPT !.available = push(@, domain)]
         ELSE IF result.value.status = "unavailable"
              THEN [acc EXCEPT !.unavailable = push(@, domain)]
              ELSE acc
    ELSE acc

\* check has been entered with some batch
Entered ==
    /\ domains \in Batches
    /\ libFault \in BOOLEAN
    /\ pc = "map"
    /\ index = 1
    /\ outcome = [i \in 1..Len(domains) |-> "none"]
    /\ checks = [i \in 1..Len(domains) |-> Uncalled]
    /\ settled = <<>>
    /\ results = [available |-> <<>>, unavailable |-> <<>>]

Init ==
    /\ Entered
    /\ world = AnswerIds
    /\ run = 1
    /\ first = NoFirst
    /\ NoAdapter
    /\ NoPair
    /\ NoConfig
    /\ NoMain

\* domains.map calls the async function of the next domain, which runs up to
\* its await of whoiser.domain; when whoiser.domain raises at once the catch
\* block runs in the same step
CallWhoiser ==
    /\ pc = "map"
    /\ index <= Len(domains)
    /\ IF libFault
       THEN /\ outcome' = [outcome EXCEPT ![index] = FaultId]
            /\ checks' = [checks EXCEPT ![index] = lookupOf(domains[index], FaultId)]
            /\ settled' = Append(settled, index)
       ELSE /\ checks' = [checks EXCEPT ![index] = Pending]
            /\ UNCHANGED <<outcome, settled>>
    /\ index' = index + 1
    /\ UNCHANGED <<domains, libFault, pc, results>>
    /\ UNCHANGED <<rerunVars, adapterVars, processVars>>

\* variant: check awaits the first query before it calls the next one
AwaitAfterFirstCall ==
    /\ pc = "map"
    /\ index > (IF Len(domains) = 0 THEN 0 ELSE 1)
    /\ pc' = "await"
    /\ UNCHANGED <<domains, libFault, index, outcome, checks, settled, results>>
    /\ UNCHANGED <<rerunVars, adapterVars, processVars>>

\* check awaits Promise.allSettled of the mapped promises
AwaitAllSettled ==
    /\ pc = "map"
    /\ index > Len(domains)
    /\ pc' = "await"
    /\ UNCHANGED <<domains, libFault, index, outcome, checks, settled, results>>
    /\ UNCHANGED <<rerunVars, adapterVars, processVars>>

\* the answers the query of position i can get: any answer of the world in
\* the first run, the answer it got in the first run when the run is repeated
answersFor(i) == IF run = 1 THEN world ELSE {first.outcome[i]}

\* the query of position i settles with some answer
Settle(i) ==
    /\ pc = "await"
    /\ checks[i].status = "pending"
    /\ \E id \in answersFor(i) :
          /\ outcome' = [outcome EXCEPT ![i] = id]
          /\ checks' = [checks EXCEPT ![i] = lookupOf(domains[i], id)]
    /\ settled' = Append(settled, i)
    /\ UNCHANGED <<domains, libFault, pc, index, results>>
    /\ UNCHANGED <<rerunVars, adapterVars, processVars>>

\* check resumes from its await
Resume ==
    /\ pc = "await"
    /\ allSettledReady(checks)
    /\ pc' = IF allSettled(checks).status = "rejected" THEN "raised" ELSE "forEach"
    /\ index' = 1
    /\ UNCHANGED <<domains, libFault, outcome, checks, settled, results>>
    /\ UNCHANGED <<rerunVars, adapterVars, processVars>>

\* checks.forEach handles the next result
ForEachStep ==
    /\ pc = "forEach"
    /\ index <= Len(domains)
    /\ results' = forEachCallback(results, allSettled(checks).value[index],
                                   domains[index])
    /\ index' = index + 1
    /\ UNCHANGED <<domains, libFault, pc, outcome, checks, settled>>
    /\ UNCHANGED <<rerunVars, adapterVars, processVars>>

\* check returns results
Return ==
    /\ pc = "forEach"
    /\ index > Len(domains)
    /\ pc' = "done"
    /\ UNCHANGED <<domains, libFault, index, outcome, checks, settled, results>>
    /\ UNCHANGED <<rerunVars, adapterVars, processVars>>

Next ==
    \/ CallWhoiser
    \/ AwaitAllSettled
    \/ \E i \in Positions : Settle(i)
    \/ Resume
    \/ ForEachStep
    \/ Return

Spec == Init /\ [][Next]_vars

\* every step of check is taken once it can be, and every query settles
FairSpec ==
    /\ Spec
    /\ WF_vars(CallWhoiser)
    /\ WF_vars(AwaitAllSettled)
    /\ WF_vars(\E i \in Positions : Settle(i))
    /\ WF_vars(Resume)
    /\ WF_vars(ForEachStep)
    /\ WF_vars(Return)

\* the answers the WHOIS servers give in the behaviours with a repeated run
RerunAnswerIds == {"empty", "registered", "errNoMatch", "errTimeout", "errNull"}

\* check has returned and is called again with the same batch, and every
\* query of the second run gets the answer it got in the first
CheckAgain ==
    /\ pc = "done"
    /\ run = 1
    /\ run' = 2
    /\ first' = [outcome |-> outcome, settled |-> settled, results |-> results]
    /\ pc' = "map"
    /\ index' = 1
    /\ outcome' = [i \in Positions |-> "none"]
    /\ checks' = [i \in Positions |-> Uncalled]
    /\ settled' = <<>>
    /\ results' = [available |-> <<>>, unavailable |-> <<>>]
    /\ UNCHANGED <<domains, libFault, world, adapterVars, processVars>>

InitRerun ==
    /\ Entered
    /\ world = RerunAnswerIds
    /\ run = 1
    /\ first = NoFirst
    /\ NoAdapter
    /\ NoPair
    /\ NoConfig
    /\ NoMain

NextRerun ==
    \/ Next
    \/ CheckAgain

SpecRerun == InitRerun /\ [][NextRerun]_vars

(***************************************************************************)
(* The callers of the core: the MCP tool and the CLI command, both going   *)
(* through the controller.  The service is a collaborator here: its call   *)
(* returns a report over the list it was given, or raises.                 *)
(***************************************************************************)
\* 'McpError'
T_McpError ==
    <<"M","c","p","E","r","r","o","r">>

\* 'Error: '
T_Error_colon ==
    <<"E","r","r","o","r",":"," ">>

\* 'Error: Please provide at least one domain name.'
T_provide_one ==
    <<"E","r","r","o","r",":"," ","P","l","e","a","s","e"," ","p","r","o","v","i","d","e"," ","a","t"," ","l","e","a","s","t"," ","o","n","e"," ","d","o","m","a","i","n"," ","n","a","m","e",".">>

\* 'a.com'
T_a_com ==
    <<"a",".","c","o","m">>

\* 'b.dev'
T_b_dev ==
    <<"b",".","d","e","v">>

\* 'available'
K_available ==
    <<"a","v","a","i","l","a","b","l","e">>

\* 'unavailable'
K_unavailable ==
    <<"u","n","a","v","a","i","l","a","b","l","e">>

\* 'WHOIS rate limit exceeded'
T_rate_limited ==
    <<"W","H","O","I","S"," ","r","a","t","e"," ","l","i","m","i","t"," ","e","x","c","e","e","d","e","d">>

\* new McpError(message, type, undefined, originalError)
McpError(message, type, originalError) ==
    [t |-> "error", name |-> T_McpError, message |-> message,
     type |-> type, originalError |-> originalError]

\* error instanceof McpError
instanceofMcpError(error) == error.t = "error" /\ "type" \in DOMAIN error

\* error instanceof Error
instanceofError(error) == error.t = "error"

\* createUnexpectedError(message, originalError), message given
createUnexpectedError(message, originalError) ==
    McpError(message, "UNEXPECTED_ERROR", originalError)

\* variant: every Error is wrapped, an McpError included
ensureMcpErrorAlwaysWraps(error) ==
    IF instanceofError(error) THEN createUnexpectedError(error.message, error)
    ELSE createUnexpectedError(StringOf(error), JUndefined)

ensureMcpError(error) ==
    IF instanceofMcpError(error) THEN error
    ELSE IF instanceofError(error) THEN createUnexpectedError(error.message, error)
    ELSE createUnexpectedError(StringOf(error), JUndefined)

\* a tool response with one text block
TextResponse(text) ==
    [kind |-> "response", content |-> <<[type |-> "text", text |-> text]>>]

formatErrorForMcpTool(error) ==
    TextResponse(T_Error_colon \o ensureMcpError(error).message)

\* variant: the error text goes to standard output and the exit status is 0
handleCliErrorQuietly(error) ==
    [kind |-> "exit", code |-> 0,
     stdout |-> T_Error_colon \o ensureMcpError(error).message, stderr |-> <<>>]

\* console.error(`Error: ${mcpError.message}`); process.exit(1)
handleCliError(error) ==
    [kind |-> "exit", code |-> 1, stdout |-> <<>>,
     stderr |-> T_Error_colon \o ensureMcpError(error).message]

\* n spaces
RECURSIVE Spaces(_)
Spaces(n) == IF n = 0 THEN <<>> ELSE <<" ">> \o Spaces(n - 1)

RECURSIVE JSONStringifyIndented(_, _, _)
\* JSON.stringify(v, null, gap) at the current indentation, gap > 0
JSONStringifyIndented(v, gap, indent) ==
    LET inner == indent + gap
        open(ch) == <<ch, "\n">> \o Spaces(inner)
        between == <<",", "\n">> \o Spaces(inner)
        close(ch) == <<"\n">> \o Spaces(indent) \o <<ch>>
    IN  CASE v.t = "null" -> <<"n","u","l","l">>
          [] v.t = "string" -> Quote(v.s)
          [] v.t = "number" -> NatToText(v.n)
          [] v.t = "array" ->
                IF Len(v.a) = 0 THEN <<"[","]">>
                ELSE open("[")
                     \o Join([i \in 1..Len(v.a) |->
                                IF v.a[i].t = "undefined" THEN <<"n","u","l","l">>
                                ELSE JSONStringifyIndented(v.a[i], gap, inner)],
                             between)
                     \o close("]")
          [] v.t = "object" ->
                LET kept == SelectSeq(v.p, LAMBDA q : q.v.t # "undefined")
                IN  IF Len(kept) = 0 THEN <<"{","}">>
                    ELSE open("{")
                         \o Join([i \in 1..Len(kept) |->
                                    Quote(kept[i].k) \o <<":", " ">>
                                    \o JSONStringifyIndented(kept[i].v, gap, inner)],
                                 between)
                         \o close("}")
          [] OTHER -> <<"{","}">>

\* a DomainAvailabilityResult as a value
ResultValue(result) ==
    JObj(<<Prop(K_available,
                JArr([n \in 1..Len(result.available) |-> JStr(result.available[n])])),
           Prop(K_unavailable,
                JArr([n \in 1..Len(result.unavailable) |-> JStr(result.unavailable[n])]))>>)

\* the texts a caller can pass as a domain name
ArgTexts == {T_a_com, T_b_dev, <<>>}

\* the domain lists a caller can pass
ArgLists == UNION {[1..n -> ArgTexts] : n \in 0..MaxArgs}

\* the schema of the tool's arguments: a non-empty array of non-empty strings
CheckDomainAvailabilityArgs(list) ==
    /\ Len(list) >= 1
    /\ \A n \in 1..Len(list) : Len(list[n]) >= 1

\* the values a failing call can raise
Thrown ==
    {McpError(T_rate_limited, "API_ERROR", JUndefined),
     JErr(T_TypeError, T_not_a_function),
     JErr(T_Error, <<>>),
     JStr(T_ETIMEDOUT),
     JNum(42),
     JUndefined,
     JNull}

RECURSIVE Listed(_, _, _)
\* the names of list whose position has verdict which
Listed(list, verdict, which) ==
    IF list = <<>> THEN <<>>
    ELSE (IF Head(verdict) = which THEN <<Head(list)>> ELSE <<>>)
         \o Listed(Tail(list), Tail(verdict), which)

\* the reports the service can return for a list: every position is listed
\* as available, listed as unavailable, or dropped
ServiceResults(list) ==
    {[available |-> Listed(list, verdict, "available"),
      unavailable |-> Listed(list, verdict, "unavailable")] :
        verdict \in [1..Len(list) -> {"available", "unavailable", "dropped"}]}

\* the try block of the controller after the service returned result
controllerReturns(result) ==
    [kind |-> "returned",
     content |-> JSONStringifyIndented(ResultValue(result), 2, 0)]

\* the catch block of the controller: handleControllerError raises
controllerRaises(error) == [kind |-> "raised", error |-> error]

\* variant: a handler without its try / catch
handleUncaught(controlled) ==
    IF controlled.kind = "returned"
    THEN TextResponse(controlled.content)
    ELSE controlled

\* the tool handler, given what controller.check did
handleCheckDomainAvailability(controlled) ==
    IF controlled.kind = "returned"
    THEN TextResponse(controlled.content)
    ELSE formatErrorForMcpTool(controlled.error)

\* the rest of the CLI action, given what controller.check did
cliAction(controlled) ==
    IF controlled.kind = "returned"
    THEN [kind |-> "exit", code |-> 0, stdout |-> controlled.content, stderr |-> <<>>]
    ELSE handleCliError(controlled.error)

\* the core is not running while the adapters are looked at on their own
CoreIdle ==
    /\ domains = <<>>
    /\ libFault = FALSE
    /\ pc = "done"
    /\ index = 1
    /\ outcome = <<>>
    /\ checks = <<>>
    /\ settled = <<>>
    /\ results = [available |-> <<>>, unavailable |-> <<>>]
    /\ world = {}
    /\ run = 1
    /\ first = NoFirst

InitAdapters ==
    /\ CoreIdle
    /\ NoPair
    /\ NoConfig
    /\ NoMain
    /\ entry \in {"tool", "cli"}
    /\ args \in ArgLists
    /\ apc = "received"
    /\ called = NotCalled
    /\ ctl = Nothing
    /\ reply = Nothing

\* the MCP server validates the arguments against the schema registered
\* with the tool, and calls the handler only when they pass
ToolValidate ==
    /\ entry = "tool"
    /\ apc = "received"
    /\ IF CheckDomainAvailabilityArgs(args)
       THEN apc' = "handler" /\ reply' = reply
       ELSE apc' = "finished" /\ reply' = [kind |-> "invalid arguments"]
    /\ UNCHANGED <<entry, args, called, ctl>>
    /\ UNCHANGED <<checkVars, rerunVars, processVars>>

\* the CLI action tests the list and exits when it has no entry
CliGuard ==
    /\ entry = "cli"
    /\ apc = "received"
    /\ IF Len(args) = 0
       THEN /\ apc' = "finished"
            /\ reply' = [kind |-> "exit", code |-> 1, stdout |-> <<>>,
                         stderr |-> T_provide_one]
       ELSE apc' = "handler" /\ reply' = reply
    /\ UNCHANGED <<entry, args, called, ctl>>
    /\ UNCHANGED <<checkVars, rerunVars, processVars>>

\* controller.check(args): the service is called with the list, and the
\* controller returns the serialized report or raises
ControllerCheck ==
    /\ apc = "handler"
    /\ called' = Append(called, args)
    /\ \/ \E result \in ServiceResults(args) : ctl' = controllerReturns(result)
       \/ \E error \in Thrown : ctl' = controllerRaises(error)
    /\ apc' = "controlled"
    /\ UNCHANGED <<entry, args, reply>>
    /\ UNCHANGED <<checkVars, rerunVars, processVars>>

\* the tool handler returns its response
ToolRespond ==
    /\ entry = "tool"
    /\ apc = "controlled"
    /\ reply' = handleCheckDomainAvailability(ctl)
    /\ apc' = "finished"
    /\ UNCHANGED <<entry, args, called, ctl>>
    /\ UNCHANGED <<checkVars, rerunVars, processVars>>

\* the CLI action prints and the process ends
CliFinish ==
    /\ entry = "cli"
    /\ apc = "controlled"
    /\ reply' = cliAction(ctl)
    /\ apc' = "finished"
    /\ UNCHANGED <<entry, args, called, ctl>>
    /\ UNCHANGED <<checkVars, rerunVars, processVars>>

NextAdapters ==
    \/ ToolValidate
    \/ CliGuard
    \/ ControllerCheck
    \/ ToolRespond
    \/ CliFinish

SpecAdapters == InitAdapters /\ [][NextAdapters]_vars

(***************************************************************************)
(* Two calls of check on one server that overlap in time.  JavaScript runs *)
(* a call up to its await without interruption, and from the settlement of *)
(* Promise.allSettled to the return without interruption; the calls        *)
(* interleave only at the settlements of their queries.                    *)
(***************************************************************************)
\* the answers a query of an overlapping call can get
PairAnswerIds == {"empty", "registered", "errTimeout"}

PairBatches == UNION {[1..n -> Names] : n \in 0..MaxPairTotal}

\* a call of check that has not been entered yet; given is the caller's list
NewCall(list) ==
    [domains |-> list,
     given   |-> list,
     pc      |-> "idle",
     overlap |-> FALSE,
     outcome |-> [i \in 1..Len(list) |-> "none"],
     checks  |-> [i \in 1..Len(list) |-> Uncalled],
     results |-> [available |-> <<>>, unavailable |-> <<>>]]

RECURSIVE forEachFrom(_, _, _, _)
\* checks.forEach from position n on
forEachFrom(acc, cs, list, n) ==
    IF n > Len(cs) THEN acc
    ELSE forEachFrom(forEachCallback(acc, cs[n], list[n]), cs, list, n + 1)

\* variant: one accumulator of the module, which a call finds as the call
\* before it left it
resultsOfModule(k) ==
    IF calls[3 - k].pc = "done" THEN calls[3 - k].results ELSE calls[k].results

\* the accumulator of call k: const results, local to the call
resultsOf(k) == calls[k].results

InitPair ==
    /\ CoreIdle
    /\ NoAdapter
    /\ NoConfig
    /\ NoMain
    /\ \E one, two \in PairBatches :
          /\ Len(one) + Len(two) <= MaxPairTotal
          /\ calls = <<NewCall(one), NewCall(two)>>

\* call k is entered and runs to its await: results is initialised and map
\* calls whoiser.domain for every position
EnterCheck(k) ==
    /\ calls[k].pc = "idle"
    /\ calls' = [calls EXCEPT
          ![k].pc = "await",
          ![k].overlap = (calls[3 - k].pc = "await"),
          ![k].checks = [i \in DOMAIN calls[k].domains |-> Pending],
          ![k].results = [available |-> <<>>, unavailable |-> <<>>]]
    /\ UNCHANGED <<checkVars, rerunVars, adapterVars, configVars, mainVars>>

\* the query of position i of call k settles
SettleQuery(k, i) ==
    /\ calls[k].pc = "await"
    /\ calls[k].checks[i].status = "pending"
    /\ \E id \in PairAnswerIds :
          calls' = [calls EXCEPT
              ![k].outcome[i] = id,
              ![k].checks[i] = lookupOf(calls[k].domains[i], id)]
    /\ UNCHANGED <<checkVars, rerunVars, adapterVars, configVars, mainVars>>

\* Promise.allSettled of call k has settled: forEach fills the report and
\* the call returns it
ReturnReport(k) ==
    /\ calls[k].pc = "await"
    /\ allSettledReady(calls[k].checks)
    /\ calls' = [calls EXCEPT
          ![k].pc = "done",
          ![k].results = forEachFrom(resultsOf(k), allSettled(calls[k].checks).value,
                                     calls[k].domains, 1)]
    /\ UNCHANGED <<checkVars, rerunVars, adapterVars, configVars, mainVars>>

NextPair ==
    \E k \in 1..2 :
        \/ EnterCheck(k)
        \/ \E i \in DOMAIN calls[k].domains : SettleQuery(k, i)
        \/ ReturnReport(k)

SpecPair == InitPair /\ [][NextPair]_vars

(***************************************************************************)
(* The configuration loader.  process.env maps a key to a string or to     *)
(* undefined.                                                              *)
(***************************************************************************)
\* 'true'
T_true ==
    <<"t","r","u","e">>

\* 'false'
T_false ==
    <<"f","a","l","s","e">>

\* ' FALSE '
T_FALSE_padded ==
    <<" ","F","A","L","S","E"," ">>

\* '0'
T_0 ==
    <<"0">>

\* '1'
T_1 ==
    <<"1">>

\* 'yes'
T_yes ==
    <<"y","e","s">>

\* the keys the configuration sources define
ConfigKeys == {"DEBUG"}

\* the keys the program asks for
AskedKeys == {"DEBUG", "PORT"}

\* the values a key can have in the environment the process is started with
DirectValues == {JStr(T_1), JStr(<<>>)}

\* the values dotenv can parse for a key of the .env file
DotenvValues == {JStr(T_yes), JStr(T_false)}

\* the values a key can have in the environments object of the global file
GlobalValues == {JStr(T_FALSE_padded), JStr(T_true), JNum(0)}

\* the environments a process can be started with
DirectEnvs == [ConfigKeys -> {JUndefined} \cup DirectValues]

\* the .env file: missing, unreadable, or parsed into its keys
DotenvFiles ==
    {[state |-> "ENOENT", parsed |-> <<>>], [state |-> "EACCES", parsed |-> <<>>]}
    \cup {[state |-> "ok", parsed |-> f] : f \in [ConfigKeys -> {JUndefined} \cup DotenvValues]}

\* the global file: missing, not JSON, without a section of this package,
\* or with the environments of this package
GlobalFiles ==
    {[state |-> "missing", environments |-> <<>>],
     [state |-> "malformed", environments |-> <<>>],
     [state |-> "no section", environments |-> <<>>]}
    \cup {[state |-> "ok", environments |-> f] :
             f \in [ConfigKeys -> {JUndefined} \cup GlobalValues]}

\* whitespace that String.prototype.trim removes
IsSpace(c) == c \in {" ", "\t", "\n", "\r"}

RECURSIVE TrimStart(_)
TrimStart(s) ==
    IF s # <<>> /\ IsSpace(Head(s)) THEN TrimStart(Tail(s)) ELSE s

RECURSIVE TrimEnd(_)
TrimEnd(s) ==
    IF s # <<>> /\ IsSpace(s[Len(s)]) THEN TrimEnd(SubSeq(s, 1, Len(s) - 1)) ELSE s

\* String.prototype.trim
Trim(s) == TrimEnd(TrimStart(s))

\* the for loop over Object.entries(environments): a key is set only when
\* process.env does not define it
loadFromGlobalConfig(env, file) ==
    IF file.state # "ok" THEN env
    ELSE [key \in DOMAIN env |->
            IF file.environments[key] # JUndefined /\ env[key] = JUndefined
            THEN JStr(StringOf(file.environments[key]))
            ELSE env[key]]

\* dotenv.config: a parsed key is set only when process.env does not define
\* it, since no override option is passed
dotenvConfig(env, parsed) ==
    [key \in DOMAIN env |->
        IF parsed[key] # JUndefined /\ env[key] = JUndefined
        THEN parsed[key]
        ELSE env[key]]

loadFromEnvFile(env, file) ==
    IF file.state # "ok" THEN env ELSE dotenvConfig(env, file.parsed)

\* variant: load without the test of configLoaded
loadAgain(c) ==
    [env |-> loadFromEnvFile(loadFromGlobalConfig(c.env, globalFile), dotenvFile),
     configLoaded |-> TRUE,
     reads |-> c.reads \o <<"global", "dotenv">>]

\* load(), on the loader c = [env, configLoaded, reads]
load(c) ==
    IF c.configLoaded THEN c
    ELSE [env |-> loadFromEnvFile(loadFromGlobalConfig(c.env, globalFile), dotenvFile),
          configLoaded |-> TRUE,
          reads |-> c.reads \o <<"global", "dotenv">>]

\* get(key) without a default value
get(env, key) == IF key \in DOMAIN env THEN env[key] ELSE JUndefined

\* variant: getBoolean without trim
getBooleanUntrimmed(env, key, defaultValue) ==
    LET value == get(env, key)
    IN  IF value.t \in {"undefined", "null"} THEN defaultValue
        ELSE LET lowerValue == ToLowerCase(value.s)
             IN  IF lowerValue = T_false \/ lowerValue = T_0 \/ lowerValue = <<>>
                 THEN FALSE
                 ELSE TRUE

getBoolean(env, key, defaultValue) ==
    LET value == get(env, key)
    IN  IF value.t \in {"undefined", "null"} THEN defaultValue
        ELSE LET lowerValue == ToLowerCase(Trim(value.s))
             IN  IF lowerValue = T_false \/ lowerValue = T_0 \/ lowerValue = <<>>
                 THEN FALSE
                 ELSE TRUE

\* a process with some environment and some configuration files
ConfigStart ==
    /\ directEnv \in DirectEnvs
    /\ penv = directEnv
    /\ dotenvFile \in DotenvFiles
    /\ globalFile \in GlobalFiles
    /\ configLoaded = FALSE
    /\ reads = <<>>
    /\ loads = 0
    /\ got = Nothing

InitConfig ==
    /\ CoreIdle
    /\ NoAdapter
    /\ NoPair
    /\ NoMain
    /\ ConfigStart

\* a call of config.load()
ConfigLoad ==
    /\ loads < MaxLoads
    /\ loads' = loads + 1
    /\ LET c == load([env |-> penv, configLoaded |-> configLoaded, reads |-> reads])
       IN  /\ penv' = c.env
           /\ configLoaded' = c.configLoaded
           /\ reads' = c.reads
    /\ UNCHANGED <<directEnv, dotenvFile, globalFile, got>>
    /\ UNCHANGED <<checkVars, rerunVars, adapterVars, pairVars, mainVars>>

\* a call of config.getBoolean(key, defaultValue)
ConfigGetBoolean ==
    /\ \E key \in AskedKeys, defaultValue \in BOOLEAN :
          got' = [key |-> key, defaultValue |-> defaultValue,
                  value |-> get(penv, key),
                  result |-> getBoolean(penv, key, defaultValue)]
    /\ UNCHANGED <<directEnv, penv, dotenvFile, globalFile, configLoaded, reads, loads>>
    /\ UNCHANGED <<checkVars, rerunVars, adapterVars, pairVars, mainVars>>

NextConfig ==
    \/ ConfigLoad
    \/ ConfigGetBoolean

SpecConfig == InitConfig /\ [][NextConfig]_vars

(***************************************************************************)
(* One start of the process: main.  main runs without interruption up to   *)
(* its await of runCli or of the connect of startServer.                   *)
(***************************************************************************)
\* 'node'
T_node ==
    <<"n","o","d","e">>

\* 'index.js'
T_index_js ==
    <<"i","n","d","e","x",".","j","s">>

\* 'check-domain-availability'
T_check_domain_availability ==
    <<"c","h","e","c","k","-","d","o","m","a","i","n","-","a","v","a","i","l","a","b","i","l","i","t","y">>

\* what can follow the script name on the command line
CliTokens == {T_check_domain_availability, T_a_com}

\* process.argv: the executable, the script, and the arguments
ArgvLists ==
    {<<T_node, T_index_js>> \o rest :
        rest \in UNION {[1..n -> CliTokens] : n \in 0..MaxCliArgs}}

\* variant: CLI mode as soon as process.argv has the script name
hasScriptName(list) == Len(list) > 1

\* process.argv.length > 2
isCliMode(list) == Len(list) > 2

\* variant: startServer connecting the transport before it registers the tool
startServerConnectsFirst(mode) ==
    <<"startServer", "config.load", "new McpServer", "new StdioServerTransport",
      "connect", "registerTools check-domain-availability">>

\* startServer('stdio') up to its await of connect
startServer(mode) ==
    <<"startServer", "config.load", "new McpServer">>
    \o (IF mode = "stdio" THEN <<"new StdioServerTransport">> ELSE <<"throw">>)
    \o (IF mode = "stdio"
        THEN <<"registerTools check-domain-availability", "connect">>
        ELSE <<>>)

\* runCli(process.argv) up to its await of parseAsync
runCli(list) == <<"runCli", "register check-domain-availability", "parseAsync">>

InitMain ==
    /\ CoreIdle
    /\ NoAdapter
    /\ NoPair
    /\ ConfigStart
    /\ argv \in ArgvLists
    /\ mpc = "start"
    /\ events = <<>>

\* main from its entry to its await: the configuration is loaded, the mode
\* is chosen, and the mode runs up to its own await
Main ==
    /\ mpc = "start"
    /\ LET c == load([env |-> penv, configLoaded |-> configLoaded, reads |-> reads])
           d == IF isCliMode(argv) THEN c ELSE load(c)
       IN  /\ penv' = d.env
           /\ configLoaded' = d.configLoaded
           /\ reads' = d.reads
    /\ loads' = loads + (IF isCliMode(argv) THEN 1 ELSE 2)
    /\ got' = [key |-> "DEBUG", defaultValue |-> FALSE,
               value |-> get(penv', "DEBUG"),
               result |-> getBoolean(penv', "DEBUG", FALSE)]
    /\ events' = <<"config.load">>
                 \o (IF isCliMode(argv) THEN runCli(argv) ELSE startServer("stdio"))
    /\ mpc' = IF isCliMode(argv) THEN "cli" ELSE "connecting"
    /\ UNCHANGED <<directEnv, dotenvFile, globalFile, argv>>
    /\ UNCHANGED <<checkVars, rerunVars, adapterVars, pairVars>>

\* the command of the CLI has run: it returned, or it ended the process
\* with status 1
RunCliSettles ==
    /\ mpc = "cli"
    /\ \/ mpc' = "ended" /\ events' = Append(events, "CLI execution completed")
       \/ mpc' = "exit 1" /\ events' = Append(events, "process.exit(1)")
    /\ UNCHANGED <<argv, configVars>>
    /\ UNCHANGED <<checkVars, rerunVars, adapterVars, pairVars>>

\* connect has settled: the server is running, or startServer ends the
\* process with status 1
ConnectSettles ==
    /\ mpc = "connecting"
    /\ \/ mpc' = "serving" /\ events' = Append(events, "connected")
       \/ mpc' = "exit 1" /\ events' = Append(events, "process.exit(1)")
    /\ UNCHANGED <<argv, configVars>>
    /\ UNCHANGED <<checkVars, rerunVars, adapterVars, pairVars>>

NextMain ==
    \/ Main
    \/ RunCliSettles
    \/ ConnectSettles

SpecMain == InitMain /\ [][NextMain]_vars

(***************************************************************************)
(* Vocabulary of the properties.                                           *)
(***************************************************************************)
InList(list, d) == \E n \in 1..Len(list) : list[n] = d

\* position i is the only position of the batch that carries its name
Sole(i) == \A j \in Positions : domains[j] = domains[i] => j = i

\* list embeds into the batch by a strictly increasing map of positions
InInputOrder(list) ==
    \E f \in [1..Len(list) -> Positions] :
        /\ \A n \in 1..Len(list) : domains[f[n]] = list[n]
        /\ \A m, n \in 1..Len(list) : m < n => f[m] < f[n]

Unsettled == {i \in Positions : checks[i].status \in {"uncalled", "pending"}}

FailedIds == {id \in OutcomeIds : ~Whois[id].ok}

\* the message a failure carries: the message of an Error, the text of a
\* raised string, and none for any other raised value
FailureMessage(error) ==
    CASE error.t = "error" -> error.message
      [] error.t = "string" -> error.s
      [] OTHER -> <<>>

NotFoundPatterns ==
    {PAT_no_match, PAT_not_found, PAT_domain_name_not_known, PAT_no_entries_found}

NoMatchPatterns == NotFoundPatterns \cup {PAT_is_available, PAT_is_free}

\* the failures whose lower-cased message contains a not-found substring
NotFoundFailures ==
    {id \in FailedIds :
        \E pat \in NotFoundPatterns :
            Includes(ToLowerCase(FailureMessage(Whois[id].v)), pat)}

RegistrationKeys == {K_Registrar, K_Creation_Date, K_Expiry_Date}

\* the answers that are a record with at least one source
RecordIds ==
    {id \in OutcomeIds :
        Whois[id].ok /\ Whois[id].v.t = "object" /\ Len(Whois[id].v.p) > 0}

\* the records in which some source carries a truthy registration field
RegisteredRecords ==
    {id \in RecordIds :
        \E s \in 1..Len(Whois[id].v.p) :
            LET source == Whois[id].v.p[s].v
            IN  /\ source.t = "object"
                /\ \E n \in 1..Len(source.p) :
                        /\ source.p[n].k \in RegistrationKeys
                        /\ Truthy(source.p[n].v)}

\* the records whose lower-cased serialization contains a no-match substring
NoMatchRecords ==
    {id \in RecordIds :
        \E pat \in NoMatchPatterns :
            Includes(ToLowerCase(JSONStringify(Whois[id].v)), pat)}

\* the name of sole position i is in exactly the list named by where
\* ("available", "unavailable" or "neither")
SoleIn(i, where) ==
    /\ InList(results.available, domains[i]) <=> (where = "available")
    /\ InList(results.unavailable, domains[i]) <=> (where = "unavailable")

(***************************************************************************)
(* Properties of check.                                                    *)
(***************************************************************************)
\* C1: no domain name occurs in both the available list and the unavailable
\* list of the report, also for a batch that repeats a name and for every
\* combination of answers.
C1_NoNameInBothLists ==
    \A d \in Names :
        ~(InList(results.available, d) /\ InList(results.unavailable, d))

\* C2: whatever the order in which the queries settle, the names inside
\* available and the names inside unavailable appear in the relative order of
\* the input list.
C2_ListsInInputOrder ==
    /\ InInputOrder(results.available)
    /\ InInputOrder(results.unavailable)

\* a report with two different names in one list, whose queries settled in
\* the reverse of the input order
C2_Witness ==
    /\ pc = "done"
    /\ Len(settled) >= 2
    /\ settled[1] > settled[2]
    /\ \E list \in {results.available, results.unavailable} :
          Len(list) >= 2 /\ list[1] # list[2]

\* C3: while any query of the batch is unsettled both lists are empty and
\* check neither aggregates nor returns; the aggregation runs only after
\* every query has settled.
C3_NothingBeforeAllSettled ==
    Unsettled # {} =>
        /\ results.available = <<>>
        /\ results.unavailable = <<>>
        /\ pc \in {"map", "await"}

\* one query has settled into a placed verdict, another is still in flight
C3_Witness ==
    /\ pc = "await"
    /\ Unsettled # {}
    /\ \E i \in Positions :
          /\ checks[i].status = "fulfilled"
          /\ checks[i].value.status \in {"available", "unavailable"}

\* what the async function and the forEach callback together do with the
\* answer id of one position: the list its name is pushed to, or "neither"
PlacementOf ==
    [id \in OutcomeIds |->
        LET s == lookupOfAnswer[id]
        IN  IF s.status = "fulfilled" /\ s.value.status \in {"available", "unavailable"}
            THEN s.value.status
            ELSE "neither"]

\* the names of the positions whose own answer places them in the list where
PlacedByOwnAnswer(where) ==
    LET keep == {i \in Positions : PlacementOf[outcome[i]] = where}
        F[n \in 0..Len(domains)] ==
            IF n = 0 THEN <<>>
            ELSE IF n \in keep THEN Append(F[n - 1], domains[n]) ELSE F[n - 1]
    IN  F[Len(domains)]

\* C4: the placement of position i depends on the answer of position i only:
\* no failure of another position aborts the batch or a sibling query, every
\* query is answered, and the report holds each position where its own
\* answer puts it.
C4_PlacementByOwnAnswerOnly ==
    /\ pc # "raised"
    /\ pc = "done" =>
          /\ \A i \in Positions :
                /\ outcome[i] \in AnswerIds \cup {FaultId}
                /\ checks[i].status \in {"fulfilled", "rejected"}
                /\ checks[i].value.domain = domains[i]
          /\ results.available = PlacedByOwnAnswer("available")
          /\ results.unavailable = PlacedByOwnAnswer("unavailable")

\* a report that places a position whose sibling's failure handler raised
C4_Witness ==
    /\ pc = "done"
    /\ \E i, j \in Positions :
          /\ i # j
          /\ checks[j].status = "rejected"
          /\ outcome[i] = "registered"
          /\ InList(results.unavailable, domains[i])

\* C5: check never raises to its caller and always goes on to return a
\* report; every failure that carries a message is absorbed by the catch
\* block into a fulfilled promise with status available or failed.
C5_FailuresAbsorbed ==
    /\ pc # "raised"
    /\ pc # "done" => ENABLED Next
    /\ \A i \in Positions :
          (outcome[i] \in FailedIds /\ Whois[outcome[i]].v.t \in {"error", "string"}) =>
              /\ checks[i].status = "fulfilled"
              /\ checks[i].value.status \in {"available", "failed"}

\* check has returned a report for a batch with a timeout and with a failure
\* whose handler raised
C5_Witness ==
    /\ pc = "done"
    /\ \E i, j \in Positions :
          /\ outcome[i] = "errTimeout"
          /\ outcome[j] \in {"errNull", "errNumberMessage"}

\* C6: when whoiser.domain cannot be invoked at all, check reports an error
\* for the whole batch instead of returning a report.
C6_LibraryFaultRaises ==
    (libFault /\ Len(domains) > 0) => pc # "done"

\* C7: a failed query places its domain in available exactly when the
\* lower-cased message of the failure contains "no match", "not found",
\* "domain name not known" or "no entries found"; otherwise the domain is in
\* neither list; a failed query never yields unavailable.
C7_FailureByMessage ==
    \A i \in Positions :
        outcome[i] \in FailedIds =>
            /\ checks[i].status \in {"fulfilled", "rejected"}
            /\ (checks[i].status = "fulfilled" /\ checks[i].value.status = "available")
                  <=> (outcome[i] \in NotFoundFailures)
            /\ checks[i].value.status # "unavailable"
            /\ (pc = "done" /\ Sole(i)) =>
                  SoleIn(i, IF outcome[i] \in NotFoundFailures
                            THEN "available" ELSE "neither")

\* a report after a failure with a not-found message (placed) and a failure
\* with another message (dropped)
C7_Witness ==
    /\ pc = "done"
    /\ \E i, j \in Positions :
          /\ outcome[i] = "errNoMatch"
          /\ outcome[j] = "errIsAvailable"
          /\ results.available = <<domains[i]>>
          /\ results.unavailable = <<>>

C9_RegistrationFieldsWin ==
    \A i \in Positions :
        outcome[i] \in RegisteredRecords =>
            /\ checks[i].status = "fulfilled"
            /\ checks[i].value.status = "unavailable"
            /\ (pc = "done" /\ Sole(i)) => SoleIn(i, "unavailable")

\* a report that lists as unavailable a domain whose record has a Creation
\* Date and the text "No match"
C9_Witness ==
    /\ pc = "done"
    /\ \E i \in Positions :
          /\ outcome[i] = "registeredNoMatch"
          /\ outcome[i] \in RegisteredRecords \cap NoMatchRecords
          /\ InList(results.unavailable, domains[i])
          /\ ~InList(results.available, domains[i])

\* C10: a successful query whose non-empty record has no truthy registration
\* field yields available exactly when the lower-cased serialization of the
\* record contains one of the six no-match substrings, and unavailable in
\* every other case.
C10_TextSniffing ==
    \A i \in Positions :
        outcome[i] \in RecordIds \ RegisteredRecords =>
            LET expected == IF outcome[i] \in NoMatchRecords
                            THEN "available" ELSE "unavailable"
            IN  /\ checks[i].status = "fulfilled"
                /\ checks[i].value.status = expected
                /\ (pc = "done" /\ Sole(i)) => SoleIn(i, expected)

\* a report with a record that says "is free" under available and an
\* ambiguous record under unavailable
C10_Witness ==
    /\ pc = "done"
    /\ \E i, j \in Positions :
          /\ outcome[i] = "isFree"
          /\ outcome[j] = "ambiguous"
          /\ results.available = <<domains[i]>>
          /\ results.unavailable = <<domains[j]>>

\* the number of entries of list that are d
Count(list, d) == Cardinality({n \in 1..Len(list) : list[n] = d})

\* the answers that are a record without any source
EmptyRecordIds ==
    {id \in OutcomeIds :
        Whois[id].ok /\ Whois[id].v.t = "object" /\ Len(Whois[id].v.p) = 0}

\* C11: a successful query that returns a record with no sources yields
\* available, and its domain ends up in the available list.
C11_EmptyRecordAvailable ==
    \A i \in Positions :
        outcome[i] \in EmptyRecordIds =>
            /\ checks[i].status = "fulfilled"
            /\ checks[i].value.status = "available"
            /\ (pc = "done" /\ Sole(i)) => SoleIn(i, "available")

\* a report that lists a domain whose query returned {} under available
C11_Witness ==
    /\ pc = "done"
    /\ \E i \in Positions :
          /\ outcome[i] = "empty"
          /\ outcome[i] \in EmptyRecordIds
          /\ Sole(i)
          /\ InList(results.available, domains[i])

\* C12: when the batch has the same name at two positions, both occurrences
\* appear in the report and both are in the same list.
C12_DuplicatesSameList ==
    pc = "done" =>
        \A i, j \in Positions :
            (i < j /\ domains[i] = domains[j]) =>
                LET d == domains[i]
                IN  \/ /\ Count(results.available, d) = Count(domains, d)
                       /\ Count(results.unavailable, d) = 0
                    \/ /\ Count(results.unavailable, d) = Count(domains, d)
                       /\ Count(results.available, d) = 0

\* C13: every entry of the report is a name of the input, and no name has
\* more entries in available and unavailable together than it has positions
\* in the input.
C13_AtMostOneEntryPerPosition ==
    /\ \A n \in 1..Len(results.available) : InList(domains, results.available[n])
    /\ \A n \in 1..Len(results.unavailable) : InList(domains, results.unavailable[n])
    /\ \A d \in Names :
          Count(results.available, d) + Count(results.unavailable, d)
              <= Count(domains, d)

\* a report that holds both occurrences of a repeated name
C13_Witness ==
    /\ pc = "done"
    /\ \E d \in Names :
          /\ Count(domains, d) = 2
          /\ Count(results.available, d) + Count(results.unavailable, d) = 2

\* C15: check called with an empty list issues no query, does not raise, and
\* goes on to return a report with two empty lists.
C15_EmptyBatch ==
    Len(domains) = 0 =>
        /\ checks = <<>>
        /\ outcome = <<>>
        /\ settled = <<>>
        /\ pc # "raised"
        /\ pc # "done" => ENABLED Next
        /\ results = [available |-> <<>>, unavailable |-> <<>>]

\* check has returned for the empty batch
C15_Witness ==
    /\ Len(domains) = 0
    /\ pc = "done"
    /\ results.available = <<>>
    /\ results.unavailable = <<>>

\* the lifecycle of position i across one step
LifecycleStep(i) ==
    /\ \/ checks'[i] = checks[i]
       \/ checks[i].status = "uncalled" /\ checks'[i].status = "pending"
       \/ /\ checks[i].status \in {"uncalled", "pending"}
          /\ checks'[i].status \in {"fulfilled", "rejected"}
    /\ outcome[i] # "none" => outcome'[i] = outcome[i]
    /\ (outcome'[i] # "none") <=> (checks'[i].status \in {"fulfilled", "rejected"})
    /\ Count(settled', i) <= 1

\* list grows by at most one entry at its end
GrowsByAtMostOne(list, list2) ==
    /\ Len(list2) \in {Len(list), Len(list) + 1}
    /\ SubSeq(list2, 1, Len(list)) = list

\* C17: every position goes from pending to one answer, to one verdict, to
\* placed or dropped: it is queried once, never queried again, its settlement
\* never changes, and an entry of the report is never removed.
C17_Lifecycle ==
    [][/\ \A i \in Positions : LifecycleStep(i)
       /\ GrowsByAtMostOne(results.available, results'.available)
       /\ GrowsByAtMostOne(results.unavailable, results'.unavailable)
       /\ Len(results'.available) + Len(results'.unavailable)
             <= Len(results.available) + Len(results.unavailable) + 1
       /\ pc = "done" => UNCHANGED vars]_vars

\* a returned report with one position placed and one position dropped
C17_Witness ==
    /\ pc = "done"
    /\ \E i, j \in Positions :
          /\ outcome[i] = "registered"
          /\ outcome[j] = "errTimeout"
          /\ results.unavailable = <<domains[i]>>
          /\ results.available = <<>>
          /\ Count(settled, i) = 1
          /\ Count(settled, j) = 1

\* C18: every query of the batch is issued before check waits for any of
\* them: nothing settles from the network while map is running, no position
\* is uncalled once check awaits, and when check starts to await all the
\* queries of the batch are outstanding together.
C18_AllIssuedBeforeWaiting ==
    /\ pc = "map" =>
          \A i \in Positions :
              IF i < index
              THEN checks[i].status = (IF libFault THEN "fulfilled" ELSE "pending")
              ELSE checks[i].status = "uncalled"
    /\ pc # "map" => \A i \in Positions : checks[i].status # "uncalled"
    /\ (pc = "await" /\ settled = <<>>) =>
          Cardinality({i \in Positions : checks[i].status = "pending"}) = Len(domains)

\* check awaits with as many outstanding queries as the batch is long
C18_Witness ==
    /\ pc = "await"
    /\ Len(domains) >= 2
    /\ Cardinality({i \in Positions : checks[i].status = "pending"}) = Len(domains)

\* C14: two runs of check on the same batch, with the same WHOIS outcome at
\* every position, return the same report, whatever the order in which the
\* queries settle in either run.
C14_SameOutcomesSameReport ==
    (run = 2 /\ pc = "done") =>
        /\ outcome = first.outcome
        /\ results = first.results

\* the second run has returned after its queries settled in another order
\* than those of the first run
C14_Witness ==
    /\ run = 2
    /\ pc = "done"
    /\ outcome = first.outcome
    /\ settled # first.settled
    /\ first.results.available # <<>>
    /\ first.results.unavailable # <<>>

\* check runs on unless it waits for a query to settle
RunsUnlessAwaiting ==
    /\ pc \in {"map", "forEach"} =>
          ENABLED (CallWhoiser \/ AwaitAllSettled \/ ForEachStep \/ Return)
    /\ (pc = "await" /\ Unsettled = {}) => ENABLED Resume
    /\ (pc = "await" /\ Unsettled # {}) =>
          /\ ~ ENABLED (CallWhoiser \/ AwaitAllSettled \/ Resume \/ ForEachStep \/ Return)
          /\ \A i \in Unsettled : ENABLED Settle(i)

\* C16: provided every query settles, check returns its report; check is
\* suspended only while it waits for queries to settle.
C16_Returns ==
    /\ []RunsUnlessAwaiting
    /\ <>(pc = "done")

\* check has returned although one query timed out, and the timeout cost
\* only its own domain
C16_Witness ==
    /\ pc = "done"
    /\ \E i, j \in Positions :
          /\ i # j
          /\ outcome[i] = "errTimeout"
          /\ outcome[j] = "empty"
          /\ results.available = <<domains[j]>>
          /\ results.unavailable = <<>>

\* C19: neither adapter calls the core with an invalid list: whenever the
\* service's check has been called, the list it got has at least one entry
\* and no entry is the empty string.
C19_InvalidNeverReachesCore ==
    \A c \in 1..Len(called) :
        /\ Len(called[c]) >= 1
        /\ \A n \in 1..Len(called[c]) : called[c][n] # <<>>

\* the text JSON.stringify(list, null, 2) gives for a list of names nested
\* one level deep
ListText(list) ==
    IF list = <<>> THEN <<"[","]">>
    ELSE <<"[", "\n", " ", " ", " ", " ">>
         \o Join([n \in 1..Len(list) |-> <<"\"">> \o list[n] \o <<"\"">>],
                 <<",", "\n", " ", " ", " ", " ">>)
         \o <<"\n", " ", " ", "]">>

\* the serialized report, written out
ReportText(result) ==
    <<"{", "\n", " ", " ">> \o <<"\"">> \o K_available \o <<"\"", ":", " ">>
    \o ListText(result.available)
    \o <<",", "\n", " ", " ">> \o <<"\"">> \o K_unavailable \o <<"\"", ":", " ">>
    \o ListText(result.unavailable)
    \o <<"\n", "}">>

\* the message of a raised value, as a reader of the response expects it
MessageOfThrown(error) ==
    CASE error.t = "null" -> <<"n","u","l","l">>
      [] error.t = "undefined" -> <<"u","n","d","e","f","i","n","e","d">>
      [] error.t = "number" -> <<"4","2">>
      [] error.t = "string" -> error.s
      [] OTHER -> error.message

\* C20: the tool handler never raises: every call it handles ends with a
\* response of exactly one text block, which holds the serialized report
\* when the controller returned and `Error: <message>` when it raised.
C20_ToolAlwaysResponds ==
    (entry = "tool" /\ apc = "finished" /\ called # NotCalled) =>
        /\ reply.kind = "response"
        /\ Len(reply.content) = 1
        /\ reply.content[1].type = "text"
        /\ ctl.kind = "returned" =>
              \E result \in ServiceResults(args) :
                  reply.content[1].text = ReportText(result)
        /\ ctl.kind = "raised" =>
              reply.content[1].text = T_Error_colon \o MessageOfThrown(ctl.error)

\* the handler has answered a call whose controller raised a TypeError
C20_Witness ==
    /\ entry = "tool"
    /\ apc = "finished"
    /\ called = <<args>>
    /\ ctl.kind = "raised"
    /\ ctl.error = JErr(T_TypeError, T_not_a_function)
    /\ reply.kind = "response"
    /\ reply.content[1].text = T_Error_colon \o T_not_a_function

\* the successful answers that are not a non-empty object: null, undefined,
\* a value that is no object, an object without keys
NotNonEmptyObjectIds ==
    {id \in OutcomeIds :
        /\ Whois[id].ok
        /\ \/ Whois[id].v.t \in {"null", "undefined", "string", "number"}
           \/ Whois[id].v.t = "object" /\ Len(Whois[id].v.p) = 0
           \/ Whois[id].v.t = "array" /\ Len(Whois[id].v.a) = 0}

\* C27: a successful query whose result is not a non-empty object yields
\* available, and every successful query yields available or unavailable,
\* never a failed or missing verdict.
C27_SuccessNeverIndeterminate ==
    \A i \in Positions :
        (outcome[i] # "none" /\ Whois[outcome[i]].ok) =>
            /\ checks[i].status = "fulfilled"
            /\ checks[i].value.status \in {"available", "unavailable"}
            /\ outcome[i] \in NotNonEmptyObjectIds =>
                  /\ checks[i].value.status = "available"
                  /\ (pc = "done" /\ Sole(i)) => SoleIn(i, "available")

\* a report that lists under available a name whose query returned null and
\* a name whose query returned undefined
C27_Witness ==
    /\ pc = "done"
    /\ \E i, j \in Positions :
          /\ outcome[i] = "null"
          /\ outcome[j] = "undefined"
          /\ domains[i] # domains[j]
          /\ results.available = <<domains[1], domains[2]>>

\* the failures whose handler raises: reading .message of null or undefined,
\* or calling toLowerCase on a message that is not a string
HandlerRaisesIds ==
    {id \in FailedIds :
        \/ Whois[id].v.t \in {"null", "undefined"}
        \/ /\ Whois[id].v.t = "object"
           /\ \E n \in 1..Len(Whois[id].v.p) :
                 /\ Whois[id].v.p[n].k = K_message
                 /\ Truthy(Whois[id].v.p[n].v)
                 /\ Whois[id].v.p[n].v.t # "string"}

\* C28: when the failure handler of one query raises, the promise of that
\* query is rejected and its name is in neither list, every other position
\* is placed by its own answer, and check does not raise but returns.
C28_RaisingHandlerCostsOneDomain ==
    (\E i \in Positions : outcome[i] \in HandlerRaisesIds) =>
        /\ pc # "raised"
        /\ (pc = "await" /\ Unsettled = {}) => ENABLED Resume
        /\ \A i \in Positions :
              outcome[i] \in HandlerRaisesIds =>
                  /\ checks[i].status = "rejected"
                  /\ Sole(i) => SoleIn(i, "neither")
        /\ pc = "done" =>
              /\ results.available = PlacedByOwnAnswer("available")
              /\ results.unavailable = PlacedByOwnAnswer("unavailable")

\* check has returned a report that lacks the name whose handler raised and
\* lists the registered name
C28_Witness ==
    /\ pc = "done"
    /\ \E i, j \in Positions :
          /\ outcome[i] = "errNumberMessage"
          /\ outcome[j] = "registered"
          /\ domains[i] # domains[j]
          /\ results.unavailable = <<domains[j]>>
          /\ results.available = <<>>

\* the texts among the values of one field: the value itself, or the entries
\* of a list
FieldValueTexts(v) ==
    CASE v.t = "string" -> {v.s}
      [] v.t = "array" -> {v.a[n].s : n \in {m \in 1..Len(v.a) : v.a[m].t = "string"}}
      [] OTHER -> {}

\* the source labels and the field names of a record
KeyTexts(record) ==
    {record.p[s].k : s \in 1..Len(record.p)}
    \cup UNION {{record.p[s].v.p[n].k : n \in 1..Len(record.p[s].v.p)} :
                   s \in {t \in 1..Len(record.p) : record.p[t].v.t = "object"}}

\* the texts of the field values of a record
ValueTexts(record) ==
    UNION {UNION {FieldValueTexts(record.p[s].v.p[n].v) : n \in 1..Len(record.p[s].v.p)} :
              s \in {t \in 1..Len(record.p) : record.p[t].v.t = "object"}}

SaysNoMatch(texts) ==
    \E text \in texts : \E pat \in NoMatchPatterns : Includes(ToLowerCase(text), pat)

\* the records without a truthy registration field in which a no-match
\* substring occurs in a source label or a field name and in no field value
KeySniffedIds ==
    {id \in RecordIds \ RegisteredRecords :
        /\ SaysNoMatch(KeyTexts(Whois[id].v))
        /\ ~SaysNoMatch(ValueTexts(Whois[id].v))}

\* C30: the substrings are searched in the serialization of the whole
\* record: a record without truthy registration fields whose source label or
\* field name contains a no-match substring yields available.
C30_KeysAreSniffedToo ==
    \A i \in Positions :
        outcome[i] \in KeySniffedIds =>
            /\ checks[i].status = "fulfilled"
            /\ checks[i].value.status = "available"
            /\ (pc = "done" /\ Sole(i)) => SoleIn(i, "available")

\* a report that lists under available a name found by its source label and
\* a name found by a field name
C30_Witness ==
    /\ pc = "done"
    /\ KeySniffedIds = {"labelled", "fieldNamed"}
    /\ \E i, j \in Positions :
          /\ outcome[i] = "labelled"
          /\ outcome[j] = "fieldNamed"
          /\ domains[i] # domains[j]
          /\ InList(results.available, domains[i])
          /\ InList(results.available, domains[j])

\* C21: the CLI command prints the report to standard output when the
\* controller returns; when the controller raises it prints `Error: <message>`
\* to standard error and exits with status 1; without a domain argument it
\* exits non-zero and the controller is not called.  No run prints a report
\* and exits non-zero.
C21_CliOutcome ==
    (entry = "cli" /\ apc = "finished") =>
        /\ reply.kind = "exit"
        /\ Len(args) = 0 =>
              /\ called = NotCalled
              /\ ctl = Nothing
              /\ reply.code # 0
              /\ reply.stdout = <<>>
        /\ ctl.kind = "returned" =>
              /\ \E result \in ServiceResults(args) : reply.stdout = ReportText(result)
              /\ reply.stderr = <<>>
              /\ reply.code = 0
        /\ ctl.kind = "raised" =>
              /\ reply.stderr = T_Error_colon \o MessageOfThrown(ctl.error)
              /\ reply.stdout = <<>>
              /\ reply.code = 1
        /\ ~(reply.stdout # <<>> /\ reply.code # 0)

\* the command has ended with status 1 after the controller raised an
\* McpError
C21_Witness ==
    /\ entry = "cli"
    /\ apc = "finished"
    /\ called = <<args>>
    /\ ctl.kind = "raised"
    /\ ctl.error = McpError(T_rate_limited, "API_ERROR", JUndefined)
    /\ reply.code = 1
    /\ reply.stderr = T_Error_colon \o T_rate_limited

\* C23: ensureMcpError returns an McpError unchanged, wraps a standard Error
\* into an UNEXPECTED_ERROR McpError with the same message and the Error as
\* originalError, turns any other value into an UNEXPECTED_ERROR McpError
\* whose message is the string form of the value, and applied twice gives
\* what it gives applied once.
C23_EnsureMcpError ==
    ctl.kind = "raised" =>
        LET error == ctl.error
            once == ensureMcpError(error)
        IN  /\ instanceofMcpError(once)
            /\ ensureMcpError(once) = once
            /\ error.t = "error" /\ error.name = T_McpError => once = error
            /\ error.t = "error" /\ error.name # T_McpError =>
                  /\ once.type = "UNEXPECTED_ERROR"
                  /\ once.message = error.message
                  /\ once.originalError = error
            /\ error.t # "error" =>
                  /\ once.type = "UNEXPECTED_ERROR"
                  /\ once.message = MessageOfThrown(error)

\* the CLI has reported a raised number through ensureMcpError
C23_Witness ==
    /\ apc = "finished"
    /\ ctl.kind = "raised"
    /\ ctl.error = JNum(42)
    /\ entry = "cli"
    /\ reply.stderr = T_Error_colon \o ensureMcpError(JNum(42)).message

RECURSIVE PlacedIn(_, _, _)
\* the names of list whose answer, taken alone, places them in the list where
PlacedIn(list, answers, where) ==
    IF list = <<>> THEN <<>>
    ELSE (IF PlacementOf[Head(answers)] = where THEN <<Head(list)>> ELSE <<>>)
         \o PlacedIn(Tail(list), Tail(answers), where)

\* C29: two calls of check that overlap share no accumulator: the report of
\* each call holds only names of its own batch and is the report its own
\* answers give when the call runs alone, under every interleaving of the
\* settlements; a call leaves the list it was given unchanged.
C29_OverlappingCallsIndependent ==
    \A k \in DOMAIN calls :
        LET c == calls[k]
        IN  /\ c.domains = c.given
            /\ c.pc # "done" => c.results = [available |-> <<>>, unavailable |-> <<>>]
            /\ c.pc = "done" =>
                  /\ c.results.available = PlacedIn(c.domains, c.outcome, "available")
                  /\ c.results.unavailable = PlacedIn(c.domains, c.outcome, "unavailable")
                  /\ \A n \in 1..Len(c.results.available) :
                        InList(c.domains, c.results.available[n])
                  /\ \A n \in 1..Len(c.results.unavailable) :
                        InList(c.domains, c.results.unavailable[n])

\* both calls have returned, the second was entered while the first was
\* waiting, and each report lists a name the other batch does not have
C29_Witness ==
    /\ calls # <<>>
    /\ calls[1].pc = "done"
    /\ calls[2].pc = "done"
    /\ calls[2].overlap
    /\ calls[1].domains = <<"a.com">>
    /\ calls[2].domains = <<"b.dev", "b.dev">>
    /\ calls[1].results.available = <<"a.com">>
    /\ calls[2].results.unavailable = <<"b.dev">>

\* the value of key by source priority: the environment of the process,
\* then the .env file, then the global file
ByPriority(key) ==
    IF directEnv[key] # JUndefined THEN directEnv[key]
    ELSE IF dotenvFile.state = "ok" /\ dotenvFile.parsed[key] # JUndefined
         THEN dotenvFile.parsed[key]
         ELSE IF globalFile.state = "ok" /\ globalFile.environments[key] # JUndefined
              THEN JStr(StringOf(globalFile.environments[key]))
              ELSE JUndefined

\* C22: after config.load() every key resolves by source priority: the
\* process environment wins over the .env file, and the .env file wins over
\* the global file.
C22_SourcePriority ==
    configLoaded => \A key \in ConfigKeys : get(penv, key) = ByPriority(key)

\* C24: a call of config.load() after the first has completed reads no
\* configuration source and leaves process.env unchanged.
C24_LoadIdempotent ==
    [][(loads' = loads + 1 /\ configLoaded) =>
          /\ reads' = reads
          /\ penv' = penv
          /\ configLoaded']_vars

\* load has been called twice, and the first call took a key from a file
C24_Witness ==
    /\ loads = 2
    /\ configLoaded
    /\ reads = <<"global", "dotenv">>
    /\ penv # directEnv

\* the texts that are 'false', '0' or empty once trimmed and lower-cased
FalseTexts == {T_false, T_FALSE_padded, T_0, <<>>}

\* C25: getBoolean returns the default when the key is unset, false when the
\* value trimmed and lower-cased is 'false', '0' or empty, and true for every
\* other value.
C25_GetBoolean ==
    got # Nothing =>
        got.result = (IF got.value = JUndefined THEN got.defaultValue
                      ELSE got.value.s \notin FalseTexts)

\* getBoolean has read ' FALSE ' and returned false against a default of true
C25_Witness ==
    /\ got # Nothing
    /\ got.key = "DEBUG"
    /\ got.value = JStr(T_FALSE_padded)
    /\ got.defaultValue = TRUE
    /\ got.result = FALSE

\* the first place of e in list, or 0
FirstAt(list, e) ==
    IF InList(list, e)
    THEN CHOOSE n \in 1..Len(list) :
            list[n] = e /\ \A m \in 1..(n - 1) : list[m] # e
    ELSE 0

\* C26: main selects exactly one mode per start, the CLI when process.argv
\* has more than two entries and the server over stdio otherwise; the
\* configuration is loaded before the mode starts, and the server registers
\* the tool before it connects the transport.
C26_OneModePerStart ==
    mpc # "start" =>
        /\ Count(events, "runCli") + Count(events, "startServer") = 1
        /\ InList(events, "runCli") <=> Len(argv) > 2
        /\ events[1] = "config.load"
        /\ configLoaded
        /\ InList(events, "startServer") =>
              /\ InList(events, "new StdioServerTransport")
              /\ FirstAt(events, "registerTools check-domain-availability") > 0
              /\ FirstAt(events, "registerTools check-domain-availability")
                    < FirstAt(events, "connect")
        /\ InList(events, "connected") =>
              FirstAt(events, "connect") < FirstAt(events, "connected")

\* the server is running after a start without arguments
C26_Witness ==
    /\ mpc = "serving"
    /\ Len(argv) = 2
    /\ loads = 2
    /\ InList(events, "connected")
    /\ ~InList(events, "runCli")

=============================================================================
